---- MODULE Spec2Model ----
(***************************************************************************)
(* Grain allocation (core/ledger/grainAllocation.js) and the Cred minting  *)
(* budget (core/mintBudget.js) of SourceCred.                              *)
(*                                                                         *)
(* Grain is an exact integer count of minimal units.  Cred scores and      *)
(* weights are real numbers in the code; here they are exact rationals: a  *)
(* weight vector is a sequence of numerators over one common denominator.  *)
(* A thrown Error is an outcome: the field "error" of the result names it, *)
(* "none" when the call returned.                                          *)
(***************************************************************************)
EXTENDS Integers, Sequences, FiniteSets, TLC

(* ------------------------------ bounds --------------------------------- *)
MaxIdentities == 2
MaxCredLen == 2
MaxScores == 4
MaxCred == 2
MaxPaid == 1
MaxBudget == 3
DiscDen == 2
MaxTotal == 5
MaxWeights == 3
MaxWeight == 3
MaxIntervals == 2
MaxLines == 2
MaxPolicies == 2
MaxCeiling == 2
MaxEverPaid == 6

(* A cred value for which isFinite is false (Infinity, NaN). *)
NonFinite == 999

(* Infinity and -Infinity, beyond every time and every sum of weights. *)
Infinity == 1000000
NegInfinity == -1000000

VARIABLES pc, policy, identities, allocation, total, weights, amounts,
          graphPartition, nodeWeights, mintBudget, budgeted

vars == <<pc, policy, identities, allocation, total, weights, amounts,
          graphPartition, nodeWeights, mintBudget, budgeted>>

(* ----------------------------- helpers --------------------------------- *)
RECURSIVE SumSeq(_)
SumSeq(s) == IF s = <<>> THEN 0 ELSE Head(s) + SumSeq(Tail(s))

Min(a, b) == IF a < b THEN a ELSE b

SeqsUpTo(S, lo, hi) == UNION {[1..n -> S] : n \in lo..hi}

(* ------------------------------ grain ---------------------------------- *)
ZERO == 0

\* G.multiplyFloat(g, num/den): the product floored to a whole unit.
MultiplyFloat(g, num, den) == (g * num) \div den

\* G.splitBudget(total, weights): the largest-remainder split of total.
\* ideal share s_i = total * w_i / W; floor_i and the remainder's numerator.
SplitFloor(tot, ws, i) == (tot * ws[i]) \div SumSeq(ws)

SplitRem(tot, ws, i) == (tot * ws[i]) % SumSeq(ws)

\* Mutant: the floors alone, nothing left over to hand out.
SplitLeftover_Dropped(tot, ws) == 0

SplitLeftover(tot, ws) ==
  tot - SumSeq([i \in DOMAIN ws |-> SplitFloor(tot, ws, i)])

\* Mutant: of equal remainders the higher index is served first.
SplitRank_HigherIndexFirst(tot, ws, i) ==
  Cardinality({j \in DOMAIN ws :
     \/ SplitRem(tot, ws, j) > SplitRem(tot, ws, i)
     \/ SplitRem(tot, ws, j) = SplitRem(tot, ws, i) /\ j > i})

\* The number of indices ranked before i: larger remainder, ties to the lower index.
SplitRank(tot, ws, i) ==
  Cardinality({j \in DOMAIN ws :
     \/ SplitRem(tot, ws, j) > SplitRem(tot, ws, i)
     \/ SplitRem(tot, ws, j) = SplitRem(tot, ws, i) /\ j < i})

SplitBudget(tot, ws) ==
  IF \A i \in DOMAIN ws : ws[i] = 0
  THEN [error |-> "DegenerateWeights", amounts |-> <<>>]
  ELSE [error |-> "none",
        amounts |-> [i \in DOMAIN ws |->
           SplitFloor(tot, ws, i)
             + (IF SplitRank(tot, ws, i) < SplitLeftover(tot, ws) THEN 1 ELSE 0)]]

(* ------------------------- grainAllocation.js -------------------------- *)
PolicyTypes == {"BALANCED", "IMMEDIATE", "RECENT", "SPECIAL"}

\* credMapping: (CredScores) => CredScores, the default being the identity.
\* "clip" caps every weight at 1; "pad" returns one weight more than it got.
CredMappings == {"none", "clip", "pad"}

ApplyCredMapping(m, w) ==
  CASE m = "clip" -> [num |-> [i \in DOMAIN w.num |-> Min(w.num[i], w.den)],
                      den |-> w.den]
    [] m = "pad" -> [num |-> Append(w.num, w.den), den |-> w.den]
    [] OTHER -> w

IsFinite(c) == c # NonFinite

\* Mutant: the paid amount is not checked.
ItemError_PaidUnchecked(i, credLength) ==
  IF credLength # Len(i.cred) THEN "InconsistentCredLength"
  ELSE IF \E k \in DOMAIN i.cred : i.cred[k] < 0 \/ ~IsFinite(i.cred[k])
       THEN "InvalidCred"
  ELSE "none"

\* The first error the map callback of _processIdentities throws on item i.
ItemError(i, credLength) ==
  IF i.paid < ZERO THEN "NegativePaid"
  ELSE IF credLength # Len(i.cred) THEN "InconsistentCredLength"
  ELSE IF \E k \in DOMAIN i.cred : i.cred[k] < 0 \/ ~IsFinite(i.cred[k])
       THEN "InvalidCred"
  ELSE "none"

ProcessIdentities(items) ==
  IF Len(items) = 0 THEN [error |-> "EmptyIdentities", results |-> <<>>]
  ELSE LET credLength == Len(items[1].cred)
           bad == {k \in DOMAIN items : ItemError(items[k], credLength) # "none"}
       IN IF bad # {}
          THEN [error |-> ItemError(items[CHOOSE k \in bad : \A j \in bad : k <= j],
                                    credLength),
                results |-> <<>>]
          ELSE IF ~(\E k \in DOMAIN items : \E t \in DOMAIN items[k].cred :
                      items[k].cred[t] > 0)
          THEN [error |-> "CredIsZero", results |-> <<>>]
          ELSE [error |-> "none",
                results |-> [k \in DOMAIN items |->
                   [id |-> items[k].id,
                    paid |-> items[k].paid,
                    cred |-> items[k].cred,
                    lifetimeCred |-> SumSeq(items[k].cred),
                    mostRecentCred |-> items[k].cred[Len(items[k].cred)]]]]

ValidatePolicy(p) == IF p.budget < ZERO THEN "InvalidBudget" ELSE "none"

SumAmounts(rs) == SumSeq([k \in DOMAIN rs |-> rs[k].amount])

\* Mutant: the distributed amount is not compared with the budget.
ValidateAllocationBudget_Unchecked(p, rs) == "none"

ValidateAllocationBudget(p, rs) ==
  IF SumAmounts(rs) # p.budget THEN "BudgetMismatch" ELSE "none"

\* identities.map(({id}, i) => ({id, amount: amounts[i]})) after splitBudget.
ReceiptsOf(ids, split) ==
  IF split.error # "none" THEN [error |-> split.error, receipts |-> <<>>]
  ELSE IF Len(split.amounts) < Len(ids)
  THEN [error |-> "UndefinedAmount", receipts |-> <<>>]
  ELSE [error |-> "none",
        receipts |-> [k \in DOMAIN ids |->
                        [id |-> ids[k].id, amount |-> split.amounts[k]]]]

\* Mutant: the lifetime cred in place of the most recent cred.
ImmediateWeights_Lifetime(ids) ==
  [num |-> [k \in DOMAIN ids |-> ids[k].lifetimeCred], den |-> 1]

ImmediateWeights(ids) ==
  [num |-> [k \in DOMAIN ids |-> ids[k].mostRecentCred], den |-> 1]

ImmediateReceipts(budget, ids, credMapping) ==
  ReceiptsOf(ids,
    SplitBudget(budget, ApplyCredMapping(credMapping, ImmediateWeights(ids)).num))

\* Mutant: acc * discount in place of acc * (1 - discount).
RECURSIVE DecayedCred_DiscountSwapped(_, _)
DecayedCred_DiscountSwapped(cred, d) ==
  IF cred = <<>> THEN 0
  ELSE LET n == Len(cred)
       IN DecayedCred_DiscountSwapped(SubSeq(cred, 1, n - 1), d) * d
            + cred[n] * DiscDen ^ n

\* i.cred.reduce((acc, cred) => acc * (1 - discount) + cred, 0), the discount
\* being d / DiscDen: the numerator of the sum over the denominator DiscDen^Len(cred).
RECURSIVE DecayedCred(_, _)
DecayedCred(cred, d) ==
  IF cred = <<>> THEN 0
  ELSE LET n == Len(cred)
       IN DecayedCred(SubSeq(cred, 1, n - 1), d) * (DiscDen - d)
            + cred[n] * DiscDen ^ n

RecentWeights(ids, d) ==
  [num |-> [k \in DOMAIN ids |-> DecayedCred(ids[k].cred, d)],
   den |-> DiscDen ^ Len(ids[1].cred)]

RecentReceipts(budget, ids, d, credMapping) ==
  ReceiptsOf(ids,
    SplitBudget(budget, ApplyCredMapping(credMapping, RecentWeights(ids, d)).num))

BalancedWeights(budget, ids) ==
  LET totalCred == SumSeq([k \in DOMAIN ids |-> ids[k].lifetimeCred])
      totalEverPaid == SumSeq([k \in DOMAIN ids |-> ids[k].paid])
      targetTotalDistributed == totalEverPaid + budget
      targetGrainPerCred == MultiplyFloat(targetTotalDistributed, 1, totalCred)
  IN [num |-> [k \in DOMAIN ids |->
        LET target == MultiplyFloat(targetGrainPerCred, ids[k].lifetimeCred, 1)
        IN IF target > ids[k].paid THEN target - ids[k].paid ELSE ZERO],
      den |-> 1]

BalancedReceipts(budget, ids, credMapping) ==
  ReceiptsOf(ids,
    SplitBudget(budget, ApplyCredMapping(credMapping, BalancedWeights(budget, ids)).num))

\* Mutant: the receipt goes to the first identity once the recipient is known.
SpecialReceipts_FirstIdentity(p, ids) ==
  IF \A k \in DOMAIN ids : ids[k].id # p.recipient
  THEN [error |-> "UnknownRecipient", receipts |-> <<>>]
  ELSE [error |-> "none", receipts |-> <<[id |-> ids[1].id, amount |-> p.budget]>>]

SpecialReceipts(p, ids) ==
  LET hits == {k \in DOMAIN ids : ids[k].id = p.recipient}
  IN IF hits = {} THEN [error |-> "UnknownRecipient", receipts |-> <<>>]
     ELSE [error |-> "none",
           receipts |-> <<[id |-> ids[CHOOSE k \in hits : \A j \in hits : k <= j].id,
                           amount |-> p.budget]>>]

Receipts(p, ids) ==
  CASE p.policyType = "BALANCED" -> BalancedReceipts(p.budget, ids, p.credMapping)
    [] p.policyType = "IMMEDIATE" -> ImmediateReceipts(p.budget, ids, p.credMapping)
    [] p.policyType = "RECENT" ->
         RecentReceipts(p.budget, ids, p.discount, p.credMapping)
    [] p.policyType = "SPECIAL" -> SpecialReceipts(p, ids)

ComputeAllocation(p, items) ==
  LET failed(e) == [error |-> e, receipts |-> <<>>]
  IN IF ValidatePolicy(p) # "none" THEN failed(ValidatePolicy(p))
     ELSE LET processed == ProcessIdentities(items)
          IN IF processed.error # "none" THEN failed(processed.error)
             ELSE LET r == Receipts(p, processed.results)
                  IN IF r.error # "none" THEN failed(r.error)
                     ELSE IF ValidateAllocationBudget(p, r.receipts) # "none"
                     THEN failed(ValidateAllocationBudget(p, r.receipts))
                     ELSE r

(* ---------------------------- mintBudget.js ---------------------------- *)
\* A node address is a sequence of parts.  A weight is the rational num / den;
\* an address without an entry in nodeWeights has set = FALSE.
HasPrefix(a, prefix) ==
  Len(prefix) <= Len(a) /\ SubSeq(a, 1, Len(prefix)) = prefix

Unset == [set |-> FALSE, num |-> 1, den |-> 1]

Weight(n) == [set |-> TRUE, num |-> n, den |-> 1]

\* NullUtil.orElse(wg.weights.nodeWeights.get(address), 1)
OrElseOne(w) == IF w.set THEN w ELSE Weight(1)

\* nodeWeightEvaluator(wg.weights): the weight of the address, 1 when it has none.
\* The weights handed in are whole numbers.
Evaluator(ws, address) == OrElseOne(ws[address]).num

AnyCommonPrefixes(addresses) ==
  \E a, b \in DOMAIN addresses : HasPrefix(addresses[a], addresses[b])

\* `last` stays -Infinity: the loop never assigns it.
InSortedOrder(xs) ==
  LET last == NegInfinity
  IN ~(\E k \in DOMAIN xs : xs[k] < last)

\* mintedCredInInterval += evaluator(address), over the nodes of an interval.
RECURSIVE MintedCred(_, _)
MintedCred(ws, nodes) ==
  IF nodes = {} THEN 0
  ELSE LET a == CHOOSE x \in nodes : TRUE
       IN Evaluator(ws, a) + MintedCred(ws, nodes \ {a})

\* The while loop at the head of an interval.  policyIndex is the index of the
\* code (from 0; policies[k] of the code is policies[k + 1] here); reading a
\* field of policies[k] for k outside the array throws a TypeError.
RECURSIVE AdvancePolicy(_, _, _, _)
AdvancePolicy(policies, policyIndex, currentBudget, startTimeMs) ==
  IF ~(Len(policies) > policyIndex)
  THEN [error |-> "none", policyIndex |-> policyIndex, currentBudget |-> currentBudget]
  ELSE IF policyIndex < 0
  THEN [error |-> "TypeError", policyIndex |-> policyIndex, currentBudget |-> currentBudget]
  ELSE IF ~(policies[policyIndex + 1].startTimeMs <= startTimeMs)
  THEN [error |-> "none", policyIndex |-> policyIndex, currentBudget |-> currentBudget]
  ELSE IF ~(policyIndex + 1 < Len(policies))
  THEN [error |-> "TypeError", policyIndex |-> policyIndex + 1,
        currentBudget |-> currentBudget]
  ELSE AdvancePolicy(policies, policyIndex + 1, policies[policyIndex + 2].budget,
                     startTimeMs)

\* The body of the loop over the partition after the while loop: every node of
\* the interval is summed and, above the budget, rescaled from its original weight.
CapInterval(original, updated, nodes, currentBudget) ==
  LET mintedCredInInterval == MintedCred(original, nodes)
  IN IF mintedCredInInterval > currentBudget
     THEN [a \in DOMAIN updated |->
             IF a \in nodes
             THEN [set |-> TRUE,
                   num |-> OrElseOne(original[a]).num * currentBudget,
                   den |-> OrElseOne(original[a]).den * mintedCredInInterval]
             ELSE updated[a]]
     ELSE updated

\* The loop over the partition for one line, from interval k on.
RECURSIVE WalkIntervals(_, _, _, _, _, _)
WalkIntervals(partition, original, policies, k, walk, updated) ==
  IF k > Len(partition) THEN [error |-> "none", weights |-> updated]
  ELSE LET adv == AdvancePolicy(policies, walk.policyIndex, walk.currentBudget,
                                partition[k].startTimeMs)
       IN IF adv.error # "none" THEN [error |-> adv.error, weights |-> updated]
          ELSE WalkIntervals(partition, original, policies, k + 1, adv,
                 CapInterval(original, updated, partition[k].nodes, adv.currentBudget))

\* The loop over budget.lines, from line l on.
RECURSIVE ApplyLines(_, _, _, _, _)
ApplyLines(partition, original, lines, l, updated) ==
  IF l > Len(lines) THEN [error |-> "none", weights |-> updated]
  ELSE IF ~InSortedOrder([k \in DOMAIN lines[l].policies |->
                            lines[l].policies[k].startTimeMs])
  THEN [error |-> "PoliciesOutOfOrder", weights |-> updated]
  ELSE LET w == WalkIntervals(partition, original, lines[l].policies, 1,
                  [error |-> "none", policyIndex |-> -1, currentBudget |-> Infinity],
                  updated)
       IN IF w.error # "none" THEN w
          ELSE ApplyLines(partition, original, lines, l + 1, w.weights)

ApplyBudget(partition, ws, b) ==
  IF AnyCommonPrefixes([l \in DOMAIN b.lines |-> b.lines[l].prefix])
  THEN [error |-> "PrefixConflict", weights |-> ws]
  ELSE IF b.intervalLength # "WEEKLY"
  THEN [error |-> "NonWeekly", weights |-> ws]
  ELSE ApplyLines(partition, ws, b.lines, 1, ws)

(* ------------------------------ inputs --------------------------------- *)
IdentityIds == {"x", "y"}
RecipientIds == IdentityIds \cup {"z"}

NoAllocation == [error |-> "pending", receipts |-> <<>>]
NoPolicy == [policyType |-> "NONE", budget |-> 0, discount |-> 0,
             credMapping |-> "none", recipient |-> "x"]
NoSplit == [error |-> "pending", amounts |-> <<>>]

\* A policy is a record of one shape; a field its policyType does not have is fixed.
Policies(budgets, discounts, mappings) ==
  {[policyType |-> t, budget |-> b, discount |-> d, credMapping |-> m, recipient |-> r] :
     t \in {"BALANCED", "IMMEDIATE"}, b \in budgets, d \in {0}, m \in mappings,
     r \in {"x"}}
  \cup
  {[policyType |-> t, budget |-> b, discount |-> d, credMapping |-> m, recipient |-> r] :
     t \in {"RECENT"}, b \in budgets, d \in discounts, m \in mappings, r \in {"x"}}
  \cup
  {[policyType |-> t, budget |-> b, discount |-> d, credMapping |-> m, recipient |-> r] :
     t \in {"SPECIAL"}, b \in budgets, d \in {0}, m \in {"none"}, r \in RecipientIds}

\* The lists of n identities over the given cred and paid values, every cred
\* series of the length len.  The first identity is "x".
IdentityLists(creds, paids, n, len) ==
  {l \in [1..n -> [id : IdentityIds, cred : [1..len -> creds], paid : paids]] :
     n > 0 => l[1].id = "x"}

\* The nodes a graph may hold, and the prefixes a budget line may name.
NodeAddresses == {<<"a", "1">>, <<"a", "2">>, <<"b", "1">>}
Prefixes == {<<>>, <<"a">>, <<"b">>}

NoBudgeted == [error |-> "pending", weights |-> [a \in NodeAddresses |-> Unset]]

\* partitionGraph: interval k starts at time k - 1 and holds the nodes placed in
\* it; place[a] = 0 for a node the graph does not hold.
PartitionOf(n, place) ==
  [k \in 1..n |-> [startTimeMs |-> k - 1,
                   nodes |-> {a \in NodeAddresses : place[a] = k}]]

BudgetPolicies ==
  [startTimeMs : 0..(MaxIntervals - 1), budget : 1..MaxCeiling]

BudgetLines ==
  [prefix : Prefixes, policies : SeqsUpTo(BudgetPolicies, 0, MaxPolicies)]

(* --------------------------- specifications ---------------------------- *)
AllocIdle == /\ policy = NoPolicy /\ identities = <<>> /\ allocation = NoAllocation
SplitIdle == /\ total = 0 /\ weights = <<>> /\ amounts = NoSplit
BudgetIdle ==
  /\ graphPartition = <<>>
  /\ nodeWeights = [a \in NodeAddresses |-> Unset]
  /\ mintBudget = [lines |-> <<>>, intervalLength |-> "WEEKLY"]
  /\ budgeted = NoBudgeted

\* computeAllocation on well-typed numbers: lists that pass validation, and
\* lists whose total cred is zero or that are empty.  A list holds at most
\* MaxScores scores in all.
InitAlloc ==
  /\ pc = "alloc"
  /\ policy \in Policies(0..MaxBudget, 0..DiscDen, CredMappings)
  /\ \E n \in 0..MaxIdentities : \E len \in 1..MaxCredLen :
       /\ n * len <= MaxScores
       /\ identities \in IdentityLists(0..MaxCred, 0..MaxPaid, n, len)
  /\ allocation = NoAllocation
  /\ SplitIdle
  /\ BudgetIdle

DoComputeAllocation ==
  /\ pc = "alloc"
  /\ allocation' = ComputeAllocation(policy, identities)
  /\ pc' = "done"
  /\ UNCHANGED <<policy, identities, total, weights, amounts,
                 graphPartition, nodeWeights, mintBudget, budgeted>>

NextAlloc == DoComputeAllocation

Spec == InitAlloc /\ [][NextAlloc]_vars

\* splitBudget alone.
InitSplit ==
  /\ pc = "split"
  /\ total \in 0..MaxTotal
  /\ weights \in SeqsUpTo(0..MaxWeight, 0, MaxWeights)
  /\ amounts = NoSplit
  /\ AllocIdle
  /\ BudgetIdle

DoSplitBudget ==
  /\ pc = "split"
  /\ amounts' = SplitBudget(total, weights)
  /\ pc' = "done"
  /\ UNCHANGED <<policy, identities, allocation, total, weights,
                 graphPartition, nodeWeights, mintBudget, budgeted>>

NextSplit == DoSplitBudget

SpecSplit == InitSplit /\ [][NextSplit]_vars

\* applyBudget on a graph of at most MaxIntervals intervals.  A node the graph
\* holds has the weight 3 or none; a node it does not hold has none.
InitBudget ==
  /\ pc = "budget"
  /\ \E n \in 0..MaxIntervals :
       \E place \in [NodeAddresses -> 0..n] :
         /\ graphPartition = PartitionOf(n, place)
         /\ nodeWeights \in {w \in [NodeAddresses -> {Unset, Weight(3)}] :
                               \A a \in NodeAddresses : place[a] = 0 => w[a] = Unset}
  /\ mintBudget \in [lines : SeqsUpTo(BudgetLines, 0, MaxLines),
                      intervalLength : {"WEEKLY", "DAILY"}]
  /\ budgeted = NoBudgeted
  /\ AllocIdle
  /\ SplitIdle

DoApplyBudget ==
  /\ pc = "budget"
  /\ budgeted' = ApplyBudget(graphPartition, nodeWeights, mintBudget)
  /\ pc' = "done"
  /\ UNCHANGED <<policy, identities, allocation, total, weights, amounts,
                 graphPartition, nodeWeights, mintBudget>>

NextBudget == DoApplyBudget

SpecBudget == InitBudget /\ [][NextBudget]_vars

\* computeAllocation on ill-shaped input: negative and non-finite cred, negative
\* paid, negative budget, cred series of differing lengths, no identity at all.
\* The identities are x, y, x, ...; a list holds at most MaxScores scores in all.
ShapeCreds == {-1, 0, 1, NonFinite}
ShapePaids == {-1, 1}
ShapeBudgets == -1..1

InitShape ==
  /\ pc = "alloc"
  /\ \E n \in 0..MaxIdentities :
       \E creds \in {c \in [1..n -> SeqsUpTo(ShapeCreds, 0, MaxCredLen)] :
                       SumSeq([k \in 1..n |-> Len(c[k])]) <= MaxScores} :
         \E paids \in [1..n -> ShapePaids] :
           identities = [k \in 1..n |->
                           [id |-> IF k % 2 = 1 THEN "x" ELSE "y",
                            cred |-> creds[k], paid |-> paids[k]]]
  /\ policy \in Policies(ShapeBudgets, {0, DiscDen}, {"none"})
  /\ allocation = NoAllocation
  /\ SplitIdle
  /\ BudgetIdle

SpecShape == InitShape /\ [][NextAlloc]_vars

\* Balanced allocations one after another over the accounts of a ledger: the
\* identities are distinct, every round adds its receipts to what the
\* identities were paid, the cred stays as it is.  The rounds end with the
\* first allocation that fails; the grain paid in all stays within MaxEverPaid.
InitBalanced ==
  /\ InitAlloc
  /\ policy.policyType = "BALANCED"
  /\ policy.credMapping = "none"
  /\ \A i, j \in DOMAIN identities : i # j => identities[i].id # identities[j].id

DoBalancedRound ==
  /\ pc = "alloc"
  /\ SumSeq([k \in DOMAIN identities |-> identities[k].paid]) + policy.budget
       <= MaxEverPaid
  /\ allocation' = ComputeAllocation(policy, identities)
  /\ IF allocation'.error = "none"
     THEN /\ identities' =
               [k \in DOMAIN identities |->
                  [identities[k] EXCEPT !.paid = @ + allocation'.receipts[k].amount]]
          /\ pc' = "alloc"
     ELSE /\ identities' = identities
          /\ pc' = "done"
  /\ UNCHANGED <<policy, total, weights, amounts,
                 graphPartition, nodeWeights, mintBudget, budgeted>>

NextBalanced == DoBalancedRound

SpecBalanced == InitBalanced /\ [][NextBalanced]_vars

(* ---------------------------- properties ------------------------------- *)
\* An identity list that passes validation, stated on the list alone.
PassesValidation(items) ==
  /\ Len(items) > 0
  /\ \A k \in DOMAIN items :
       /\ items[k].paid >= 0
       /\ Len(items[k].cred) = Len(items[1].cred)
       /\ \A t \in DOMAIN items[k].cred :
            items[k].cred[t] >= 0 /\ items[k].cred[t] # NonFinite
  /\ \E k \in DOMAIN items : \E t \in DOMAIN items[k].cred : items[k].cred[t] > 0

Returned == pc = "done" /\ allocation.error = "none"

Latest(items) == [k \in DOMAIN items |-> items[k].cred[Len(items[k].cred)]]

Lifetime(items) == [k \in DOMAIN items |-> SumSeq(items[k].cred)]

InputIds == {identities[k].id : k \in DOMAIN identities}

\* C1: the receipts of every returned allocation sum to exactly policy.budget,
\* whatever the policy type.
C1_BudgetConserved ==
  Returned => SumAmounts(allocation.receipts) = policy.budget

C1_Witness ==
  /\ Returned
  /\ policy.policyType = "BALANCED"
  /\ Len(allocation.receipts) = 2
  /\ \A k \in DOMAIN allocation.receipts : allocation.receipts[k].amount > 0

\* C2: no identity id appears in more than one receipt of a returned allocation.
C2_NoRepeatedIdentity ==
  Returned =>
    \A i, j \in DOMAIN allocation.receipts :
      i # j => allocation.receipts[i].id # allocation.receipts[j].id

\* C3 as stated: a Special policy fails with the unknown-recipient error when the
\* recipient is no input identity, and otherwise returns the single receipt
\* (recipient, budget), whatever the identities' scores and paid amounts are.
C3_SpecialAnyInput ==
  (pc = "done" /\ policy.policyType = "SPECIAL") =>
    IF policy.recipient \notin InputIds
    THEN allocation.error = "UnknownRecipient"
    ELSE /\ allocation.error = "none"
         /\ allocation.receipts = <<[id |-> policy.recipient, amount |-> policy.budget]>>

\* C3 amended: the same, for a non-negative budget and an identity list that
\* passes validation.
C3_SpecialValidated ==
  (/\ pc = "done"
   /\ policy.policyType = "SPECIAL"
   /\ policy.budget >= 0
   /\ PassesValidation(identities)) =>
    IF policy.recipient \notin InputIds
    THEN allocation.error = "UnknownRecipient" /\ allocation.receipts = <<>>
    ELSE /\ allocation.error = "none"
         /\ allocation.receipts = <<[id |-> policy.recipient, amount |-> policy.budget]>>

C3_Witness ==
  /\ Returned
  /\ policy.policyType = "SPECIAL"
  /\ policy.recipient = "y"
  /\ policy.budget > 0
  /\ Len(identities) = 2
  /\ identities[2].paid > 0
  /\ identities[2].cred[1] = 0

\* C4: a Recent policy with discount 1 derives the weights of the Immediate policy
\* (each identity's last score) and computeAllocation has the same outcome for both.
C4_RecentOneIsImmediate ==
  (pc = "done" /\ policy.policyType = "RECENT" /\ policy.discount = DiscDen) =>
    /\ allocation =
         ComputeAllocation([policy EXCEPT !.policyType = "IMMEDIATE"], identities)
    /\ PassesValidation(identities) =>
         LET ids == ProcessIdentities(identities).results
             r == RecentWeights(ids, policy.discount)
             i == ImmediateWeights(ids)
         IN \A k \in DOMAIN identities :
              /\ r.num[k] * i.den = i.num[k] * r.den
              /\ i.num[k] = Latest(identities)[k] * i.den

C4_Witness ==
  /\ Returned
  /\ policy.policyType = "RECENT"
  /\ policy.discount = DiscDen
  /\ policy.credMapping = "none"
  /\ Len(identities) = 2
  /\ Len(identities[1].cred) = 2
  /\ identities[1].cred[1] > identities[1].cred[2]
  /\ identities[2].cred[2] > 0
  /\ allocation.receipts[1].amount > 0

\* C5: a Balanced policy over identities that were paid nothing returns receipts
\* within one unit of budget * lifetimeScore_i / (total lifetime score).
C5_BalancedProportional ==
  (/\ pc = "done"
   /\ policy.policyType = "BALANCED"
   /\ policy.credMapping = "none"
   /\ PassesValidation(identities)
   /\ \A k \in DOMAIN identities : identities[k].paid = 0) =>
    /\ allocation.error = "none"
    /\ LET lc == Lifetime(identities)
            diff(k) == allocation.receipts[k].amount * SumSeq(lc) - policy.budget * lc[k]
       IN \A k \in DOMAIN identities : -SumSeq(lc) <= diff(k) /\ diff(k) <= SumSeq(lc)

\* The example of an Immediate allocation: x: [10], y: [30], budget 40.
ImmediateExample ==
  ComputeAllocation(
    [policyType |-> "IMMEDIATE", budget |-> 40, discount |-> 0,
     credMapping |-> "none", recipient |-> "x"],
    <<[id |-> "x", cred |-> <<10>>, paid |-> 0],
      [id |-> "y", cred |-> <<30>>, paid |-> 0]>>)
  = [error |-> "none",
     receipts |-> <<[id |-> "x", amount |-> 10], [id |-> "y", amount |-> 30]>>]

\* C6: the receipts of an Immediate policy are split(budget, latest scores): earlier
\* scores and paid amounts have no effect; x: [10], y: [30] and budget 40 give 10 and 30.
C6_ImmediateLatestOnly ==
  /\ (/\ pc = "done"
      /\ policy.policyType = "IMMEDIATE"
      /\ policy.credMapping = "none"
      /\ PassesValidation(identities)) =>
       LET split == SplitBudget(policy.budget, Latest(identities))
       IN IF split.error # "none" THEN allocation.error = split.error
          ELSE /\ allocation.error = "none"
               /\ allocation.receipts =
                    [k \in DOMAIN identities |->
                       [id |-> identities[k].id, amount |-> split.amounts[k]]]
  /\ ImmediateExample

C6_Witness ==
  /\ Returned
  /\ policy.policyType = "IMMEDIATE"
  /\ policy.credMapping = "none"
  /\ Len(identities) = 2
  /\ Len(identities[1].cred) = 2
  /\ identities[1].cred[1] > identities[1].cred[2]
  /\ identities[1].paid > identities[2].paid
  /\ allocation.receipts[1].amount > 0
  /\ allocation.receipts[2].amount > allocation.receipts[1].amount

\* C7: computeAllocation fails, returning nothing, on every input-shape error (no
\* identity, negative paid, cred series of differing lengths, a negative or
\* non-finite score, zero total score, negative budget), for every policy type.
C7_ShapeErrorsFail ==
  (pc = "done" /\ (policy.budget < 0 \/ ~PassesValidation(identities))) =>
    allocation.error # "none" /\ allocation.receipts = <<>>

C7_Witness ==
  /\ pc = "done"
  /\ policy.policyType = "SPECIAL"
  /\ policy.recipient \in InputIds
  /\ policy.budget > 0
  /\ Len(identities) = 2
  /\ \A k \in DOMAIN identities : identities[k].paid > 0 /\ identities[k].cred = <<0, 0>>
  /\ allocation.error = "CredIsZero"

\* C8: for a total and non-negative weights of which one is positive, split returns
\* as many entries as weights, each non-negative, summing to exactly the total.
C8_SplitConserves ==
  (pc = "done" /\ \E i \in DOMAIN weights : weights[i] > 0) =>
    /\ amounts.error = "none"
    /\ Len(amounts.amounts) = Len(weights)
    /\ \A i \in DOMAIN amounts.amounts : amounts.amounts[i] >= 0
    /\ SumSeq(amounts.amounts) = total

C8_Witness ==
  /\ pc = "done"
  /\ amounts.error = "none"
  /\ Len(weights) = 3
  /\ total = 5
  /\ weights[1] = 0
  /\ (total * weights[2]) % SumSeq(weights) # 0

\* C9: in split the leftover is a non-negative integer below the number of weights,
\* every result is less than one unit away from total * w_i / sum(w), and of two
\* equal remainders the lower index is served first.
C9_LargestRemainder ==
  (pc = "done" /\ \E i \in DOMAIN weights : weights[i] > 0) =>
    LET W == SumSeq(weights)
        floor(i) == (total * weights[i]) \div W
        rem(i) == (total * weights[i]) % W
        leftover == total - SumSeq([i \in DOMAIN weights |-> floor(i)])
    IN /\ leftover >= 0 /\ leftover < Len(weights)
       /\ leftover = SplitLeftover(total, weights)
       /\ \A i \in DOMAIN weights :
            /\ amounts.amounts[i] * W - total * weights[i] < W
            /\ total * weights[i] - amounts.amounts[i] * W < W
       /\ \A i, j \in DOMAIN weights :
            (i < j /\ rem(i) = rem(j) /\ amounts.amounts[j] = floor(j) + 1)
              => amounts.amounts[i] = floor(i) + 1

C9_Witness ==
  /\ pc = "done"
  /\ amounts.error = "none"
  /\ Len(weights) = 3
  /\ weights[1] = weights[2] /\ weights[2] = weights[3]
  /\ amounts.amounts[1] = amounts.amounts[2] + 1
  /\ amounts.amounts[2] = amounts.amounts[3]

\* A well-formed schedule: weekly, no prefix of one line a prefix of another
\* line's, every line's checkpoints in time order.
WellFormedBudget(b) ==
  /\ b.intervalLength = "WEEKLY"
  /\ \A i, j \in DOMAIN b.lines :
       i # j => ~HasPrefix(b.lines[i].prefix, b.lines[j].prefix)
  /\ \A l \in DOMAIN b.lines :
       \A i, j \in DOMAIN b.lines[l].policies :
         i < j => b.lines[l].policies[i].startTimeMs <= b.lines[l].policies[j].startTimeMs

\* The ceiling of the last checkpoint that has started by time t, if any.
ActiveCeiling(policies, t) ==
  LET started == {k \in DOMAIN policies : policies[k].startTimeMs <= t}
  IN IF started = {} THEN Infinity
     ELSE policies[CHOOSE k \in started : \A j \in started : j <= k].budget

\* The sum of the weights of the addresses, as one fraction.
RECURSIVE WeightSum(_, _)
WeightSum(ws, addresses) ==
  IF addresses = {} THEN [num |-> 0, den |-> 1]
  ELSE LET a == CHOOSE x \in addresses : TRUE
           w == OrElseOne(ws[a])
           rest == WeightSum(ws, addresses \ {a})
       IN [num |-> rest.num * w.den + w.num * rest.den, den |-> rest.den * w.den]

WithinCeilings(partition, ws, b) ==
  \A l \in DOMAIN b.lines : \A k \in DOMAIN partition :
    LET matching == {a \in partition[k].nodes : HasPrefix(a, b.lines[l].prefix)}
        ceiling == ActiveCeiling(b.lines[l].policies, partition[k].startTimeMs)
        sum == WeightSum(ws, matching)
    IN ceiling = Infinity \/ sum.num <= ceiling * sum.den

Matching(partition, b, l, k) ==
  {a \in partition[k].nodes : HasPrefix(a, b.lines[l].prefix)}

\* The weight the address has after capping per prefix: scaled by ceiling / sum
\* in the interval where the addresses under its line's prefix sum above the
\* line's active ceiling, its original weight otherwise.
CappedWeight(partition, ws, b, a) ==
  LET over == {h \in (DOMAIN b.lines) \X (DOMAIN partition) :
                 /\ a \in Matching(partition, b, h[1], h[2])
                 /\ MintedCred(ws, Matching(partition, b, h[1], h[2])) >
                      ActiveCeiling(b.lines[h[1]].policies, partition[h[2]].startTimeMs)}
  IN IF over = {} THEN OrElseOne(ws[a])
     ELSE LET h == CHOOSE x \in over : TRUE
          IN [set |-> TRUE,
              num |-> OrElseOne(ws[a]).num *
                        ActiveCeiling(b.lines[h[1]].policies, partition[h[2]].startTimeMs),
              den |-> OrElseOne(ws[a]).den *
                        MintedCred(ws, Matching(partition, b, h[1], h[2]))]

SameWeight(v, w) == OrElseOne(v).num * OrElseOne(w).den = OrElseOne(w).num * OrElseOne(v).den

\* Two disjoint prefixes with a ceiling of 100 each; in one interval the
\* addresses under a sum to 150 and the address under b has weight 50.
CapExample ==
  LET partition == <<[startTimeMs |-> 0, nodes |-> NodeAddresses]>>
      ws == (<<"a", "1">> :> Weight(100)) @@ (<<"a", "2">> :> Weight(50)) @@
            (<<"b", "1">> :> Weight(50))
      line(prefix) == [prefix |-> prefix,
                       policies |-> <<[startTimeMs |-> 0, budget |-> 100]>>]
      r == ApplyBudget(partition, ws,
                       [lines |-> <<line(<<"a">>), line(<<"b">>)>>,
                        intervalLength |-> "WEEKLY"])
  IN /\ r.error = "none"
     /\ SameWeight(r.weights[<<"a", "1">>], [set |-> TRUE, num |-> 200, den |-> 3])
     /\ SameWeight(r.weights[<<"a", "2">>], [set |-> TRUE, num |-> 100, den |-> 3])
     /\ SameWeight(r.weights[<<"b", "1">>], Weight(50))

\* C11: within an interval applyBudget sums and rescales only the addresses
\* under the line's prefix: where they sum above the ceiling each is multiplied
\* by ceiling / sum, and addresses under another, disjoint prefix are not
\* counted and keep their weight (150 under a and 50 under b against ceilings
\* of 100: a scaled by 2/3, b untouched).
C11_CapsMatchingOnly ==
  (pc = "done" /\ budgeted.error # "pending") =>
    /\ CapExample
    /\ WellFormedBudget(mintBudget) =>
         /\ budgeted.error = "none"
         /\ \A a \in NodeAddresses :
              SameWeight(budgeted.weights[a],
                         CappedWeight(graphPartition, nodeWeights, mintBudget, a))

LinePrefixes(b) == [l \in DOMAIN b.lines |-> b.lines[l].prefix]

\* Some address of the list is a prefix of another entry of the list.
SomePrefixOfAnother(addresses) ==
  \E i, j \in DOMAIN addresses : i # j /\ HasPrefix(addresses[i], addresses[j])

\* The lists of the tests of anyCommonPrefixes.
CommonPrefixExamples ==
  /\ AnyCommonPrefixes(<<<<>>, <<"foo">>>>)
  /\ ~AnyCommonPrefixes(<<<<"bar">>, <<"foo">>>>)
  /\ ~AnyCommonPrefixes(<<>>)

\* C12: anyCommonPrefixes is true exactly when some address of the list is a
\* prefix of another address of the list (false for the empty list and for
\* [bar, foo]), and applyBudget fails with the prefix-conflict error exactly
\* when one line's prefix is a prefix of another line's.
C12_PrefixConflictIffShared ==
  (pc = "done" /\ budgeted.error # "pending") =>
    /\ CommonPrefixExamples
    /\ AnyCommonPrefixes(LinePrefixes(mintBudget)) =
         SomePrefixOfAnother(LinePrefixes(mintBudget))
    /\ (budgeted.error = "PrefixConflict") = SomePrefixOfAnother(LinePrefixes(mintBudget))

\* Some checkpoint of the line starts before an earlier checkpoint of the line.
OutOfOrder(policies) ==
  \E i, j \in DOMAIN policies : i < j /\ policies[j].startTimeMs < policies[i].startTimeMs

\* The schedule of the test 'errors if the policies are out-of-order': one line
\* with the empty prefix and checkpoints starting at 50 and 25, on an empty graph.
OutOfOrderExample ==
  ApplyBudget(<<>>, [a \in NodeAddresses |-> Unset],
              [lines |-> <<[prefix |-> <<>>,
                            policies |-> <<[startTimeMs |-> 50, budget |-> 100],
                                           [startTimeMs |-> 25, budget |-> 50]>>]>>,
               intervalLength |-> "WEEKLY"]).error = "PoliciesOutOfOrder"

\* C13: applyBudget fails with the policies-out-of-order error whenever a line
\* of a weekly schedule without prefix conflict has a checkpoint that starts
\* before an earlier checkpoint of the same line ([50, 25]), also on an empty graph.
C13_OutOfOrderRejected ==
  (pc = "done" /\ budgeted.error # "pending") =>
    /\ OutOfOrderExample
    /\ ( /\ mintBudget.intervalLength = "WEEKLY"
         /\ ~SomePrefixOfAnother(LinePrefixes(mintBudget))
         /\ \E l \in DOMAIN mintBudget.lines : OutOfOrder(mintBudget.lines[l].policies) )
       => budgeted.error = "PoliciesOutOfOrder"

\* C14: applyBudget fails with the non-weekly error whenever intervalLength is
\* not WEEKLY and no line's prefix is a prefix of another line's, with or
\* without lines in the schedule.
C14_NonWeeklyRejected ==
  ( /\ pc = "done" /\ budgeted.error # "pending"
    /\ mintBudget.intervalLength # "WEEKLY"
    /\ ~SomePrefixOfAnother(LinePrefixes(mintBudget)) )
  => budgeted.error = "NonWeekly"

\* policyIndex and currentBudget of a line after the while loop of interval k,
\* the walk having started before the first interval with -1 and Infinity.
RECURSIVE WalkUpTo(_, _, _)
WalkUpTo(partition, policies, k) ==
  IF k = 0 THEN [error |-> "none", policyIndex |-> -1, currentBudget |-> Infinity]
  ELSE LET before == WalkUpTo(partition, policies, k - 1)
       IN IF before.error # "none" THEN before
          ELSE AdvancePolicy(policies, before.policyIndex, before.currentBudget,
                             partition[k].startTimeMs)

\* C15: applyBudget walks the intervals of a well-formed schedule to the end
\* without error, and in every interval the ceiling in force for a line is
\* that of the line's last checkpoint started by the interval's start,
\* unbounded when none has started (a line without checkpoints, a first
\* checkpoint later than the first interval, intervals after the last checkpoint).
C15_WalkTracksActiveCeiling ==
  (pc = "done" /\ budgeted.error # "pending" /\ WellFormedBudget(mintBudget)) =>
    /\ budgeted.error = "none"
    /\ \A l \in DOMAIN mintBudget.lines : \A k \in DOMAIN graphPartition :
         LET walk == WalkUpTo(graphPartition, mintBudget.lines[l].policies, k)
         IN /\ walk.error = "none"
            /\ walk.currentBudget =
                 ActiveCeiling(mintBudget.lines[l].policies, graphPartition[k].startTimeMs)

AtMost(v, w) == OrElseOne(v).num * OrElseOne(w).den <= OrElseOne(w).num * OrElseOne(v).den

\* In the interval of the address no line's matching addresses sum above the
\* line's active ceiling.
NowhereAboveCeiling(partition, ws, b, a) ==
  \A l \in DOMAIN b.lines : \A k \in DOMAIN partition :
    a \in partition[k].nodes =>
      MintedCred(ws, Matching(partition, b, l, k)) <=
        ActiveCeiling(b.lines[l].policies, partition[k].startTimeMs)

Reordered(b) ==
  {[b EXCEPT !.lines = [i \in DOMAIN b.lines |-> b.lines[perm[i]]]] :
     perm \in {f \in [DOMAIN b.lines -> DOMAIN b.lines] :
                 \A i, j \in DOMAIN b.lines : i # j => f[i] # f[j]}}

SplitWeights(p, ids) ==
  ApplyCredMapping(p.credMapping,
    CASE p.policyType = "BALANCED" -> BalancedWeights(p.budget, ids)
      [] p.policyType = "IMMEDIATE" -> ImmediateWeights(ids)
      [] p.policyType = "RECENT" -> RecentWeights(ids, p.discount)).num

\* C18: for a Balanced, Immediate or Recent policy with a budget of zero or more
\* and an identity list that passes validation, the weights handed to the split
\* hold a positive weight, and computeAllocation fails neither for all-zero
\* weights nor for receipts that do not sum to the budget.
C18_SplitGetsPositiveWeight ==
  ( /\ pc = "done"
    /\ policy.policyType \in {"BALANCED", "IMMEDIATE", "RECENT"}
    /\ policy.credMapping = "none"
    /\ policy.budget >= 0
    /\ PassesValidation(identities) )
  => /\ \E k \in DOMAIN identities :
          SplitWeights(policy, ProcessIdentities(identities).results)[k] > 0
     /\ allocation.error \notin {"DegenerateWeights", "BudgetMismatch"}

\* The grain of a Balanced round over the total lifetime cred, and identity k
\* at or above its target (totalEverPaid + budget) / totalCred * lifetimeCred_k.
TotalCred == SumSeq(Lifetime(identities))

TargetTotal == SumSeq([k \in DOMAIN identities |-> identities[k].paid]) + policy.budget

AtOrAboveTarget(k) ==
  identities[k].paid * TotalCred >= TargetTotal * Lifetime(identities)[k]

\* The weight of identity k is max(0, target_k - paid_k), both sides times TotalCred.
ExactUnderpayment(k) ==
  LET w == BalancedWeights(policy.budget, ProcessIdentities(identities).results).num[k]
      short == TargetTotal * Lifetime(identities)[k] - identities[k].paid * TotalCred
  IN w * TotalCred = IF short > 0 THEN short ELSE 0

\* An identity at or above its target has the weight zero and, when the round
\* returns receipts, a receipt of zero: it is paid nothing further.
NothingAtTarget(k) ==
  AtOrAboveTarget(k) =>
    /\ BalancedWeights(policy.budget, ProcessIdentities(identities).results).num[k] = 0
    /\ allocation'.error = "none" =>
         /\ allocation'.receipts[k].amount = 0
         /\ identities'[k].paid = identities[k].paid

\* C19: in every round of Balanced allocations over a validated list the
\* weight of each identity is max(0, target_i - totalPaid_i), with target_i =
\* (totalEverPaid + budget) / totalLifetimeScore * lifetimeScore_i; it is never
\* negative, and an identity at or above its target gets the weight zero and a
\* receipt of zero, so that it is paid nothing further.
C19_BalancedUnderpayment ==
  [][(DoBalancedRound /\ PassesValidation(identities)) =>
       \A k \in DOMAIN identities :
         /\ BalancedWeights(policy.budget,
                            ProcessIdentities(identities).results).num[k] >= 0
         /\ ExactUnderpayment(k)
         /\ NothingAtTarget(k)]_vars

====
